---------------------------- MODULE Spec2Model ----------------------------
(***************************************************************************)
(* The users app of the FYP portal: the User and Supervisor models          *)
(* (fyp_portal/users/models.py) and their admin registrations               *)
(* (fyp_portal/users/admin.py).                                             *)
(*                                                                         *)
(* The two files are declarations; what they do is what Django does with    *)
(* them.  The model follows the two ways a record is written:               *)
(*   - the model API (Model.save, Manager.create, create_user,              *)
(*     createsuperuser, Model.delete): pre_save of every field, then one    *)
(*     INSERT or UPDATE, on which the database enforces its constraints;    *)
(*     field validators and choices are not run;                            *)
(*   - the admin add and change forms: ModelForm.full_clean (field          *)
(*     validators, choices, required, validate_unique), and only when that  *)
(*     passes, Model.save as above.                                         *)
(* Text is a sequence of one-character strings, so search and e-mail        *)
(* validation are computed on the characters.                               *)
(***************************************************************************)
EXTENDS Integers, Sequences, FiniteSets

VARIABLES users, supervisors, nextUserPk, nextSupervisorPk, pending, result

vars == <<users, supervisors, nextUserPk, nextSupervisorPk, pending, result>>

(***************************************************************************)
(* Bounds of the model                                                      *)
(***************************************************************************)
MaxRecords == 2

Pks == 1..MaxRecords

(***************************************************************************)
(* Text values                                                              *)
(***************************************************************************)
DrLee == <<"D", "r", ".", " ", "L", "e", "e">>
DrKim == <<"D", "r", ".", " ", "K", "i", "m">>
LeeEmail == <<"l", "e", "e", "@", "u", "n", "i", "v", ".", "e", "d", "u">>
KimEmail == <<"k", "i", "m", "@", "u", "n", "i", "v", ".", "e", "d", "u">>
NotAnEmail == <<"n", "o", "t", "-", "a", "n", "-", "e", "m", "a", "i", "l">>
CS == <<"C", "S">>
EE == <<"E", "E">>

Usernames == {"alice", "bob"}
UserEmails == {LeeEmail}

UpperCase ==
    <<"A", "B", "C", "D", "E", "F", "G", "H", "I", "J", "K", "L", "M",
      "N", "O", "P", "Q", "R", "S", "T", "U", "V", "W", "X", "Y", "Z">>

LowerCase ==
    <<"a", "b", "c", "d", "e", "f", "g", "h", "i", "j", "k", "l", "m",
      "n", "o", "p", "q", "r", "s", "t", "u", "v", "w", "x", "y", "z">>

Digits == {"0", "1", "2", "3", "4", "5", "6", "7", "8", "9"}

Letters == {UpperCase[i] : i \in 1..26} \cup {LowerCase[i] : i \in 1..26}

Range(s) == {s[i] : i \in 1..Len(s)}

(***************************************************************************)
(* models.EmailField: default_validators = [validate_email]                 *)
(* (django.core.validators.EmailValidator.__call__): the value has an "@",  *)
(* is split at its last "@", the part before matches user_regex (a          *)
(* dot-atom: non-empty runs of atext separated by single dots) and the      *)
(* part after is a domain: labels of letters, digits and inner hyphens      *)
(* separated by dots, at least two of them, the last without digits.        *)
(***************************************************************************)
AtextChars ==
    Letters \cup Digits \cup
    {"!", "#", "$", "%", "&", "*", "+", "/", "=", "?", "^", "_",
     "{", "|", "}", "~", "-"}

LastIndexOf(s, ch) ==
    IF \E i \in 1..Len(s) : s[i] = ch
    THEN CHOOSE i \in 1..Len(s) :
             s[i] = ch /\ \A j \in (i + 1)..Len(s) : s[j] # ch
    ELSE 0

DotAtom(s, chars) ==
    /\ Len(s) > 0
    /\ s[1] # "."
    /\ s[Len(s)] # "."
    /\ \A i \in 1..Len(s) : s[i] = "." \/ s[i] \in chars
    /\ \A i \in 1..(Len(s) - 1) : ~(s[i] = "." /\ s[i + 1] = ".")

DomainOk(s) ==
    /\ DotAtom(s, Letters \cup Digits \cup {"-"})
    /\ "." \in Range(s)
    /\ s[1] # "-"
    /\ s[Len(s)] # "-"
    /\ \A i \in 1..(Len(s) - 1) :
           ~(s[i] = "." /\ s[i + 1] = "-") /\ ~(s[i] = "-" /\ s[i + 1] = ".")
    /\ \A i \in (LastIndexOf(s, ".") + 1)..Len(s) : s[i] \notin Digits

validate_email(value) ==
    LET at == LastIndexOf(value, "@") IN
    /\ at > 0
    /\ DotAtom(SubSeq(value, 1, at - 1), AtextChars)
    /\ DomainOk(SubSeq(value, at + 1, Len(value)))

(***************************************************************************)
(* User.ROLE_CHOICES, and the values a caller may hand in for role: the     *)
(* four choices, a string that is none of them, and the empty string a      *)
(* CharField without default takes when no role is given.                   *)
(***************************************************************************)
ROLE_CHOICES == {"student", "supervisor", "admin", "public"}

RoleInputs == ROLE_CHOICES \cup {"teacher", ""}

(***************************************************************************)
(* The records                                                              *)
(***************************************************************************)
SupervisorData ==
    { [name |-> DrLee, email |-> LeeEmail, department |-> CS],
      [name |-> DrKim, email |-> KimEmail, department |-> EE],
      [name |-> DrLee, email |-> NotAnEmail, department |-> CS] }

UserFields == [username : Usernames, email : UserEmails, role : RoleInputs]

Row(f, t) ==
    [username |-> f.username, email |-> f.email, role |-> f.role, created_at |-> t]

SupervisorRequests ==
    [kind : {"add"}, pk : {0}, data : SupervisorData] \cup
    [kind : {"change"}, pk : Pks, data : SupervisorData]

(***************************************************************************)
(* The last operation and its outcome: the model and the operation, the     *)
(* key of the row it addressed (0 for a new one that was not inserted),     *)
(* the error and the fields handed in.                                      *)
(* err is "none", "ValidationError" (raised by the full_clean of a form,    *)
(* before any write) or "IntegrityError" (raised by the database when a     *)
(* write breaks a unique constraint).                                       *)
(***************************************************************************)
Outcome(model, op, pk, err, data) ==
    [model |-> model, op |-> op, pk |-> pk, err |-> err, data |-> data]

(***************************************************************************)
(* The admin requests whose form has been validated and whose save has not  *)
(* run yet: a multiset, request |-> how many of it are in flight.           *)
(***************************************************************************)
RECURSIVE CountAll(_, _)
CountAll(bag, rs) ==
    IF rs = {} THEN 0
    ELSE LET r == CHOOSE x \in rs : TRUE IN bag[r] + CountAll(bag, rs \ {r})

InFlight == CountAll(pending, DOMAIN pending)

Enqueue(bag, r) ==
    [x \in DOMAIN bag \cup {r} |->
        IF x = r THEN (IF r \in DOMAIN bag THEN bag[r] + 1 ELSE 1) ELSE bag[x]]

Dequeue(bag, r) ==
    [x \in (IF bag[r] = 1 THEN DOMAIN bag \ {r} ELSE DOMAIN bag) |->
        IF x = r THEN bag[r] - 1 ELSE bag[x]]

(***************************************************************************)
(* Both models take the implicit AutoField id: the database hands out the   *)
(* next key of the table and never hands one out twice.  The model takes    *)
(* on no new row and no new request once the keys handed out and the        *)
(* requests in flight, over both tables, number MaxRecords.                 *)
(***************************************************************************)
KeysLeft == (nextUserPk - 1) + (nextSupervisorPk - 1) + InFlight < MaxRecords

(***************************************************************************)
(* Supervisor.email = models.EmailField(unique=True): a UNIQUE constraint   *)
(* on the column.  An INSERT (pk = 0) or an UPDATE of row pk breaks it      *)
(* when another row holds the value.                                        *)
(***************************************************************************)
EmailHeldByOther(store, pk, email) ==
    \E other \in DOMAIN store : other # pk /\ store[other].email = email

(***************************************************************************)
(* Model.save() of a Supervisor instance with key pk (0: no key yet) and    *)
(* fields d: UPDATE the row when the key is set and the row exists,         *)
(* otherwise INSERT; either is refused whole by the unique constraint.      *)
(* None of the three fields has a pre_save that changes its value, and no   *)
(* validator runs.  The result is the new table, the error and the key.     *)
(***************************************************************************)
SaveSupervisorNoConstraint(store, pk, d) ==
    LET key == IF pk = 0 THEN nextSupervisorPk ELSE pk IN
    [store |-> [k \in DOMAIN store \cup {key} |-> IF k = key THEN d ELSE store[k]],
     err |-> "none", pk |-> key]

SaveSupervisorPartialWrite(store, pk, d) ==
    LET key == IF pk = 0 THEN nextSupervisorPk ELSE pk IN
    IF EmailHeldByOther(store, pk, d.email)
    THEN [store |-> [k \in DOMAIN store |->
                        IF k = pk THEN [d EXCEPT !.email = store[k].email] ELSE store[k]],
          err |-> "IntegrityError", pk |-> pk]
    ELSE [store |-> [k \in DOMAIN store \cup {key} |->
                        IF k = key THEN d ELSE store[k]],
          err |-> "none", pk |-> key]

SaveSupervisor(store, pk, d) ==
    LET key == IF pk = 0 THEN nextSupervisorPk ELSE pk IN
    IF EmailHeldByOther(store, pk, d.email)
    THEN [store |-> store, err |-> "IntegrityError", pk |-> pk]
    ELSE [store |-> [k \in DOMAIN store \cup {key} |->
                        IF k = key THEN d ELSE store[k]],
          err |-> "none", pk |-> key]

(***************************************************************************)
(* ModelForm.full_clean of the Supervisor admin form for the row pk         *)
(* (0: the add form): the e-mail field's validator, then validate_unique    *)
(* on the fields that passed, which looks the value up in the table,        *)
(* leaving the row itself out.                                              *)
(***************************************************************************)
SupervisorFormErrors(store, pk, d) ==
    IF ~validate_email(d.email) THEN {"invalid"}
    ELSE IF EmailHeldByOther(store, pk, d.email) THEN {"unique"}
    ELSE {}

(***************************************************************************)
(* Supervisor.objects.create(...) or Supervisor(...).save() with fields d   *)
(***************************************************************************)
SupervisorCreate(d) ==
    /\ KeysLeft
    /\ LET r == SaveSupervisor(supervisors, 0, d) IN
        /\ supervisors' = r.store
        /\ nextSupervisorPk' = IF r.err = "none" THEN nextSupervisorPk + 1 ELSE nextSupervisorPk
        /\ result' = Outcome("Supervisor", "create", r.pk, r.err, d)
    /\ UNCHANGED <<users, nextUserPk, pending>>

(***************************************************************************)
(* A loaded Supervisor instance has its fields assigned and is saved.       *)
(***************************************************************************)
SupervisorUpdate(pk, d) ==
    /\ pk \in DOMAIN supervisors
    /\ LET r == SaveSupervisor(supervisors, pk, d) IN
        /\ supervisors' = r.store
        /\ result' = Outcome("Supervisor", "update", pk, r.err, d)
    /\ UNCHANGED <<users, nextUserPk, nextSupervisorPk, pending>>

(***************************************************************************)
(* Model.delete(), also what the delete view of the admin does.  models.py  *)
(* declares no relation, so the collector finds nothing to cascade to.      *)
(***************************************************************************)
SupervisorDelete(pk) ==
    /\ pk \in DOMAIN supervisors
    /\ supervisors' = [k \in DOMAIN supervisors \ {pk} |-> supervisors[k]]
    /\ result' = Outcome("Supervisor", "delete", pk, "none", supervisors[pk])
    /\ UNCHANGED <<users, nextUserPk, nextSupervisorPk, pending>>

(***************************************************************************)
(* SupervisorAdmin add view, first half: the form is validated against      *)
(* the table as it is now.  A form with errors is shown again and nothing   *)
(* is written; a clean one goes on to save_model.                           *)
(***************************************************************************)
SupervisorAdminAdd(d) ==
    /\ IF SupervisorFormErrors(supervisors, 0, d) # {}
       THEN /\ result' = Outcome("Supervisor", "admin_add", 0, "ValidationError", d)
            /\ UNCHANGED pending
       ELSE /\ KeysLeft
            /\ pending' = Enqueue(pending, [kind |-> "add", pk |-> 0, data |-> d])
            /\ result' = Outcome("Supervisor", "form_valid", 0, "none", d)
    /\ UNCHANGED <<users, supervisors, nextUserPk, nextSupervisorPk>>

(***************************************************************************)
(* SupervisorAdmin change view, first half, for an existing row.            *)
(***************************************************************************)
SupervisorAdminChange(pk, d) ==
    /\ pk \in DOMAIN supervisors
    /\ IF SupervisorFormErrors(supervisors, pk, d) # {}
       THEN /\ result' = Outcome("Supervisor", "admin_change", pk, "ValidationError", d)
            /\ UNCHANGED pending
       ELSE /\ KeysLeft
            /\ pending' = Enqueue(pending, [kind |-> "change", pk |-> pk, data |-> d])
            /\ result' = Outcome("Supervisor", "form_valid", pk, "none", d)
    /\ UNCHANGED <<users, supervisors, nextUserPk, nextSupervisorPk>>

(***************************************************************************)
(* Second half of either view: save_model calls obj.save().  Other          *)
(* requests may have written since the form was validated.                  *)
(***************************************************************************)
SupervisorAdminSave(r) ==
    /\ r \in DOMAIN pending
    /\ LET s == SaveSupervisor(supervisors, r.pk, r.data) IN
        /\ supervisors' = s.store
        /\ nextSupervisorPk' =
               IF r.pk = 0 /\ s.err = "none" THEN nextSupervisorPk + 1 ELSE nextSupervisorPk
        /\ result' = Outcome("Supervisor", IF r.kind = "add" THEN "admin_add" ELSE "admin_change",
                             s.pk, s.err, r.data)
    /\ pending' = Dequeue(pending, r)
    /\ UNCHANGED <<users, nextUserPk>>

(***************************************************************************)
(* SupervisorAdmin.search_fields = ['name', 'email', 'department']:         *)
(* ModelAdmin.get_search_results splits the search term at white space      *)
(* and keeps the rows in which every word is found, by icontains, in at     *)
(* least one of the three fields.  An empty term keeps every row.           *)
(***************************************************************************)
search_fields == {"name", "email", "department"}

Lower(ch) ==
    IF \E i \in 1..26 : UpperCase[i] = ch
    THEN LowerCase[CHOOSE i \in 1..26 : UpperCase[i] = ch]
    ELSE ch

LowerText(s) == [i \in 1..Len(s) |-> Lower(s[i])]

Contains(s, sub) ==
    \E i \in 0..(Len(s) - Len(sub)) : SubSeq(s, i + 1, i + Len(sub)) = sub

icontains(value, bit) == Contains(LowerText(value), LowerText(bit))

RECURSIVE SplitWords(_)
SplitWords(s) ==
    IF s = <<>> THEN {}
    ELSE IF Head(s) = " " THEN SplitWords(Tail(s))
    ELSE LET n == IF \E i \in 1..Len(s) : s[i] = " "
                  THEN (CHOOSE i \in 1..Len(s) :
                            s[i] = " " /\ \A j \in 1..(i - 1) : s[j] # " ") - 1
                  ELSE Len(s)
         IN {SubSeq(s, 1, n)} \cup SplitWords(SubSeq(s, n + 1, Len(s)))

get_search_results_any_word(store, term) ==
    {pk \in DOMAIN store :
        \E bit \in SplitWords(term) :
            \E f \in search_fields : icontains(store[pk][f], bit)}

get_search_results(store, term) ==
    {pk \in DOMAIN store :
        \A bit \in SplitWords(term) :
            \E f \in search_fields : icontains(store[pk][f], bit)}

Queries ==
    { <<"l", "e", "e">>, <<"k", "i", "m">>, <<"L", "E", "E">>,
      <<"D", "r", ".", " ", "L", "e", "e">>, <<"L", "e", "e", " ", "C", "S">>,
      <<"K", "i", "m", " ", "C", "S">> }

(***************************************************************************)
(* The admin change list of Supervisor with the search box filled in.       *)
(***************************************************************************)
SupervisorSearch(term) ==
    /\ result' = Outcome("Supervisor", "search", 0, "none",
                         [term |-> term, hits |-> get_search_results(supervisors, term)])
    /\ UNCHANGED <<users, supervisors, nextUserPk, nextSupervisorPk, pending>>

SupervisorNext ==
    \/ \E d \in SupervisorData : SupervisorCreate(d)
    \/ \E pk \in Pks, d \in SupervisorData : SupervisorUpdate(pk, d)
    \/ \E pk \in Pks : SupervisorDelete(pk)
    \/ \E d \in SupervisorData : SupervisorAdminAdd(d)
    \/ \E pk \in Pks, d \in SupervisorData : SupervisorAdminChange(pk, d)
    \/ \E r \in SupervisorRequests : SupervisorAdminSave(r)

SupervisorModelApi ==
    \/ \E d \in SupervisorData : SupervisorCreate(d)
    \/ \E pk \in Pks, d \in SupervisorData : SupervisorUpdate(pk, d)
    \/ \E pk \in Pks : SupervisorDelete(pk)

SearchNext == SupervisorModelApi \/ \E term \in Queries : SupervisorSearch(term)

(***************************************************************************)
(* timezone.now() as auto_now_add reads it: the clock moves on between two  *)
(* inserts of users, so the number of the insert stands for the instant.    *)
(***************************************************************************)
timezone_now == nextUserPk

(***************************************************************************)
(* AbstractUser.username is unique=True: a UNIQUE constraint on the column. *)
(***************************************************************************)
UsernameHeldByNone(store, pk, username) == FALSE

UsernameHeldByOther(store, pk, username) ==
    \E other \in DOMAIN store : other # pk /\ store[other].username = username

(***************************************************************************)
(* Model.save() of a User instance with key pk (0: no key yet), fields f    *)
(* and created_at attribute c, at time t.  created_at is a                  *)
(* DateTimeField(auto_now_add=True): its pre_save puts the current time in  *)
(* on INSERT, whatever the instance carried, and on UPDATE writes what the  *)
(* instance carries.  role is a CharField with choices: choices are looked  *)
(* at by full_clean only, and save does not call it.                        *)
(***************************************************************************)
SaveUser(store, pk, f, c, t) ==
    LET insert == pk = 0 \/ pk \notin DOMAIN store
        key == IF pk = 0 THEN nextUserPk ELSE pk
        row == IF insert THEN Row(f, t) ELSE Row(f, c)
    IN
    IF UsernameHeldByOther(store, pk, f.username)
    THEN [store |-> store, err |-> "IntegrityError", pk |-> pk]
    ELSE [store |-> [k \in DOMAIN store \cup {key} |->
                        IF k = key THEN row ELSE store[k]],
          err |-> "none", pk |-> key]

(***************************************************************************)
(* ModelForm.full_clean of the CustomUserAdmin form for the row pk (0: the  *)
(* add form).  role has no blank=True, so an empty role is "required"; a    *)
(* role outside ROLE_CHOICES is "invalid_choice"; validate_unique looks     *)
(* the username up in the table, leaving the row itself out.  created_at    *)
(* is not a field of the form (auto_now_add makes it non-editable, and      *)
(* readonly_fields lists it).                                               *)
(***************************************************************************)
UserFormErrors(store, pk, f) ==
    (IF f.role = "" THEN {"required"}
     ELSE IF f.role \notin ROLE_CHOICES THEN {"invalid_choice"} ELSE {})
    \cup
    (IF UsernameHeldByOther(store, pk, f.username) THEN {"unique"} ELSE {})

(***************************************************************************)
(* User.objects.create(...), create_user(...) or createsuperuser: the       *)
(* model API, with whatever role the caller gives ("" when it gives none).  *)
(* The instance starts with no created_at; one passed in is overwritten     *)
(* all the same.                                                            *)
(***************************************************************************)
UserCreate(f) ==
    /\ KeysLeft
    /\ LET r == SaveUser(users, 0, f, timezone_now, timezone_now) IN
        /\ users' = r.store
        /\ nextUserPk' = IF r.err = "none" THEN nextUserPk + 1 ELSE nextUserPk
        /\ result' = Outcome("User", "create", r.pk, r.err, f)
    /\ UNCHANGED <<supervisors, nextSupervisorPk, pending>>

(***************************************************************************)
(* A loaded User instance has its fields assigned (created_at is an         *)
(* attribute like the others, here given the value c) and is saved.  For c  *)
(* the caller leaves the value the row has or assigns another instant; 0,   *)
(* which the clock never gives, stands for the other instants.              *)
(***************************************************************************)
CreatedAtInputs(pk) == {users[pk].created_at, 0}

UserUpdate(pk, f, c) ==
    /\ pk \in DOMAIN users
    /\ LET r == SaveUser(users, pk, f, c, timezone_now) IN
        /\ users' = r.store
        /\ result' = Outcome("User", "update", pk, r.err, Row(f, c))
    /\ UNCHANGED <<supervisors, nextUserPk, nextSupervisorPk, pending>>

(***************************************************************************)
(* Model.delete(), also what the delete view of the admin does.             *)
(***************************************************************************)
UserDeleteCascade(pk) ==
    /\ pk \in DOMAIN users
    /\ users' = [k \in DOMAIN users \ {pk} |-> users[k]]
    /\ supervisors' = [k \in {x \in DOMAIN supervisors :
                                 supervisors[x].email # users[pk].email} |-> supervisors[k]]
    /\ result' = Outcome("User", "delete", pk, "none", <<>>)
    /\ UNCHANGED <<nextUserPk, nextSupervisorPk, pending>>

UserDelete(pk) ==
    /\ pk \in DOMAIN users
    /\ users' = [k \in DOMAIN users \ {pk} |-> users[k]]
    /\ result' = Outcome("User", "delete", pk, "none", <<>>)
    /\ UNCHANGED <<supervisors, nextUserPk, nextSupervisorPk, pending>>

(***************************************************************************)
(* CustomUserAdmin add view: the form is validated and, when clean, saved.  *)
(***************************************************************************)
UserAdminAdd(f) ==
    /\ KeysLeft
    /\ IF UserFormErrors(users, 0, f) # {}
       THEN /\ result' = Outcome("User", "admin_add", 0, "ValidationError", f)
            /\ UNCHANGED <<users, nextUserPk>>
       ELSE LET r == SaveUser(users, 0, f, timezone_now, timezone_now) IN
            /\ users' = r.store
            /\ nextUserPk' = IF r.err = "none" THEN nextUserPk + 1 ELSE nextUserPk
            /\ result' = Outcome("User", "admin_add", r.pk, r.err, f)
    /\ UNCHANGED <<supervisors, nextSupervisorPk, pending>>

(***************************************************************************)
(* CustomUserAdmin change view of an existing row: the form fields are      *)
(* put on the loaded instance, which keeps its created_at (the form has no  *)
(* such field, so a value posted for it is not read), and it is saved.      *)
(***************************************************************************)
UserAdminChange(pk, f) ==
    /\ pk \in DOMAIN users
    /\ IF UserFormErrors(users, pk, f) # {}
       THEN /\ result' = Outcome("User", "admin_change", pk, "ValidationError", f)
            /\ UNCHANGED users
       ELSE LET r == SaveUser(users, pk, f, users[pk].created_at, timezone_now) IN
            /\ users' = r.store
            /\ result' = Outcome("User", "admin_change", pk, r.err, f)
    /\ UNCHANGED <<supervisors, nextUserPk, nextSupervisorPk, pending>>

UserNext ==
    \/ \E f \in UserFields : UserCreate(f)
    \/ \E pk \in DOMAIN users, f \in UserFields :
           \E c \in CreatedAtInputs(pk) : UserUpdate(pk, f, c)
    \/ \E pk \in Pks : UserDelete(pk)
    \/ \E f \in UserFields : UserAdminAdd(f)
    \/ \E pk \in Pks, f \in UserFields : UserAdminChange(pk, f)

Next == UserNext \/ SupervisorNext

Init ==
    /\ users = <<>>
    /\ supervisors = <<>>
    /\ nextUserPk = 1
    /\ nextSupervisorPk = 1
    /\ pending = <<>>
    /\ result = Outcome("none", "init", 0, "none", <<>>)

SpecSupervisor == Init /\ [][SupervisorNext]_vars

SpecSearch == Init /\ [][SearchNext]_vars

SpecUser == Init /\ [][UserNext]_vars

Spec == Init /\ [][Next]_vars


(***************************************************************************)
(* The claims                                                               *)
(***************************************************************************)
WriteOps == {"create", "update", "admin_add", "admin_change"}

\* C1: in every reachable state, whatever the interleaving of model-API
\* writes, deletes and admin requests between their validation and their
\* save, no two distinct Supervisor rows hold the same email.
C1_EmailUnique ==
    \A p \in DOMAIN supervisors : \A q \in DOMAIN supervisors :
        p # q => supervisors[p].email # supervisors[q].email

\* An admin add whose form was clean lost the race: its INSERT was refused
\* because the email had been inserted since.
C1_Witness ==
    /\ result.model = "Supervisor"
    /\ result.op = "admin_add"
    /\ result.err = "IntegrityError"
    /\ \E k \in DOMAIN supervisors : supervisors[k].email = result.data.email

\* C2 as stated, for a well-formed email: a Supervisor create or update
\* whose email is held by another row fails with the unique-constraint
\* violation (the IntegrityError of the database) and leaves the table as
\* it was.
C2_Original ==
    [][ ( /\ result'.model = "Supervisor"
          /\ result'.op \in WriteOps
          /\ validate_email(result'.data.email)
          /\ \E k \in DOMAIN supervisors :
                 k # result'.pk /\ supervisors[k].email = result'.data.email )
        => ( /\ result'.err = "IntegrityError"
             /\ supervisors' = supervisors ) ]_vars

\* C2 amended: such a create or update fails and leaves the table as it
\* was; the error is the IntegrityError of the database when the write is
\* made through the model API, and through the admin either the
\* ValidationError of the form (nothing is written) or, when the duplicate
\* arrived after the form was validated, the IntegrityError.
C2_Amended ==
    [][ ( /\ result'.model = "Supervisor"
          /\ result'.op \in WriteOps
          /\ \E k \in DOMAIN supervisors :
                 k # result'.pk /\ supervisors[k].email = result'.data.email )
        => ( /\ result'.err \in {"ValidationError", "IntegrityError"}
             /\ result'.op \in {"create", "update"} => result'.err = "IntegrityError"
             /\ supervisors' = supervisors
             /\ nextSupervisorPk' = nextSupervisorPk ) ]_vars

\* An admin change to the (well-formed) email of another row was refused
\* by the form.
C2_Witness ==
    /\ result.model = "Supervisor"
    /\ result.op = "admin_change"
    /\ result.err = "ValidationError"
    /\ validate_email(result.data.email)
    /\ result.pk \in DOMAIN supervisors
    /\ \E k \in DOMAIN supervisors :
           k # result.pk /\ supervisors[k].email = result.data.email

\* C3 as stated: every stored User has a role among the four choices.
C3_RoleInChoices ==
    \A pk \in DOMAIN users : users[pk].role \in ROLE_CHOICES

\* C4 as stated: no step changes the created_at of a User row that exists
\* before and after it.
C4_CreatedAtFixed ==
    [][ \A pk \in DOMAIN users \cap DOMAIN users' :
            users'[pk].created_at = users[pk].created_at ]_vars

\* C5 as stated: a Supervisor create or update whose email is not a valid
\* address fails with ValidationError and leaves the table as it was.
C5_InvalidEmailRejected ==
    [][ ( /\ result'.model = "Supervisor"
          /\ result'.op \in WriteOps
          /\ ~validate_email(result'.data.email) )
        => ( /\ result'.err = "ValidationError"
             /\ supervisors' = supervisors ) ]_vars

\* C6: no two distinct User rows hold the same username, and a User create
\* (model API or admin add) whose username another row holds fails and
\* leaves the table as it was.
C6_UsernameUnique ==
    [][ /\ \A p \in DOMAIN users' : \A q \in DOMAIN users' :
               p # q => users'[p].username # users'[q].username
        /\ ( /\ result'.model = "User"
             /\ result'.op \in {"create", "admin_add"}
             /\ \E k \in DOMAIN users : users[k].username = result'.data.username )
           => ( /\ result'.err \in {"ValidationError", "IntegrityError"}
                /\ users' = users
                /\ nextUserPk' = nextUserPk ) ]_vars

\* A create with a valid role was refused because its username is taken.
C6_Witness ==
    /\ result.model = "User"
    /\ result.op \in {"create", "admin_add"}
    /\ result.err # "none"
    /\ result.data.role \in ROLE_CHOICES
    /\ \E k \in DOMAIN users : users[k].username = result.data.username

\* C7 as stated: an update of an existing User that sets only role, to one
\* of the four choices, succeeds whatever the current role and leaves
\* created_at and username as they were; one that sets role to anything
\* else fails with ValidationError and leaves the row as it was.
C7_RoleUpdate ==
    [][ ( /\ result'.model = "User"
          /\ result'.op \in {"update", "admin_change"}
          /\ result'.pk \in DOMAIN users )
        => LET old == users[result'.pk]
               d == result'.data
           IN /\ ( /\ d.role \in ROLE_CHOICES
                   /\ d.username = old.username
                   /\ d.email = old.email
                   /\ result'.op = "update" => d.created_at = old.created_at )
                 => ( /\ result'.err = "none"
                      /\ users'[result'.pk].role = d.role
                      /\ users'[result'.pk].created_at = old.created_at
                      /\ users'[result'.pk].username = old.username )
              /\ d.role \notin ROLE_CHOICES
                 => ( /\ result'.err = "ValidationError"
                      /\ users' = users ) ]_vars

\* The words of a search term, and a word occurring in a text whatever the
\* case of the letters, said without the recursion of the search itself.
WordsIn(term) ==
    { SubSeq(term, i, j) : <<i, j>> \in
        { ij \in (1..Len(term)) \X (1..Len(term)) :
            /\ ij[1] <= ij[2]
            /\ \A k \in ij[1]..ij[2] : term[k] # " "
            /\ ij[1] = 1 \/ term[ij[1] - 1] = " "
            /\ ij[2] = Len(term) \/ term[ij[2] + 1] = " " } }

OccursIn(word, text) ==
    \E o \in 0..(Len(text) - Len(word)) :
        \A k \in 1..Len(word) : Lower(text[o + k]) = Lower(word[k])

\* C8 as stated: a search returns exactly the rows in which the query is a
\* substring (letter case aside) of the name, the email or the department.
C8_Original ==
    result.op = "search" =>
        \A pk \in DOMAIN supervisors :
            pk \in result.data.hits <=>
                \E f \in {"name", "email", "department"} :
                    OccursIn(result.data.term, supervisors[pk][f])

\* C8 amended: a search returns exactly the rows in which every word of
\* the query is a substring (letter case aside) of one of the three
\* fields, the words not needing to be in the same field; so a row is
\* returned whenever the whole query is a substring of one field.
C8_Amended ==
    result.op = "search" =>
        /\ result.data.hits \subseteq DOMAIN supervisors
        /\ \A pk \in DOMAIN supervisors :
               /\ pk \in result.data.hits <=>
                      \A w \in WordsIn(result.data.term) :
                          \E f \in {"name", "email", "department"} :
                              OccursIn(w, supervisors[pk][f])
               /\ (\E f \in {"name", "email", "department"} :
                       OccursIn(result.data.term, supervisors[pk][f]))
                  => pk \in result.data.hits

\* Dr. Lee of CS is returned for "Lee CS", which is in none of the fields.
C8_Witness ==
    /\ result.op = "search"
    /\ result.data.term = <<"L", "e", "e", " ", "C", "S">>
    /\ \E pk \in result.data.hits :
           supervisors[pk] = [name |-> DrLee, email |-> LeeEmail, department |-> CS]

\* C9: every User operation leaves the Supervisor table (and the requests
\* on it) as it was and every Supervisor operation leaves the User table
\* as it was; an operation on one model is never refused for what the
\* other holds: a failure has a reason in its own table or its own fields.
C9_Independent ==
    [][ /\ result'.model = "User"
           => ( /\ supervisors' = supervisors
                /\ nextSupervisorPk' = nextSupervisorPk
                /\ pending' = pending
                /\ result'.err # "none"
                   => \/ result'.data.role \notin ROLE_CHOICES
                      \/ \E k \in DOMAIN users :
                             k # result'.pk /\ users[k].username = result'.data.username )
        /\ result'.model = "Supervisor"
           => ( /\ users' = users
                /\ nextUserPk' = nextUserPk
                /\ result'.err # "none"
                   => \/ ~validate_email(result'.data.email)
                      \/ \E k \in DOMAIN supervisors :
                             k # result'.pk /\ supervisors[k].email = result'.data.email )
      ]_vars

\* A User with role supervisor was created with the email a Supervisor
\* row holds, and both rows are there.
C9_Witness ==
    /\ result.model = "User"
    /\ result.op \in {"create", "admin_add"}
    /\ result.err = "none"
    /\ result.data.role = "supervisor"
    /\ result.pk \in DOMAIN users
    /\ \E k \in DOMAIN supervisors : supervisors[k].email = result.data.email

\* C10 as stated: a create of a Supervisor with the email of the row that
\* was just deleted succeeds, and so does an update of a row that keeps
\* the email the row has.
C10_EmailReusable ==
    [][ /\ ( /\ result.model = "Supervisor"
             /\ result.op = "delete"
             /\ result'.model = "Supervisor"
             /\ result'.op \in {"create", "admin_add", "form_valid"}
             /\ result'.data.email = result.data.email )
           => result'.err = "none"
        /\ ( /\ result'.model = "Supervisor"
             /\ result'.op \in {"update", "admin_change", "form_valid"}
             /\ result'.pk \in DOMAIN supervisors
             /\ result'.data.email = supervisors[result'.pk].email )
           => result'.err = "none" ]_vars

=============================================================================
